---- MODULE Spec2Model ----
(***************************************************************************)
(* Verification model of the completion ranking engine of coq_nvim         *)
(* (coq/server/metrics.py) and of the tree-sitter client's session         *)
(* bookkeeping (coq/clients/tree_sitter/worker.py).                        *)
(*                                                                         *)
(* Three specifications share the module:                                  *)
(*   SpecMatch  - the pure match scorers _primary / _secondary, applied to *)
(*                every (transpose_band, cword, match) within the bounds;  *)
(*   SpecRank   - one call of rank(): the two pool tasks c1 / c2, the      *)
(*                FIRST_EXCEPTION join, the weighting, the sort, the log;  *)
(*   SpecWorker - concurrent Worker._req / Worker.notify calls.            *)
(*                                                                         *)
(* Strings are sequences of characters, indexed from 0 through At.         *)
(* Floats are modelled as exact rationals [n, d] (d > 0, lowest terms).    *)
(***************************************************************************)
EXTENDS Integers, Sequences, FiniteSets, TLC

VARIABLES
    \* ---- SpecMatch: one evaluation of _metrics' body for one candidate
    transpose_band,   \* options.transpose_band
    cword,            \* the context run chosen for the candidate (original case)
    match,            \* edit.new_text
    m_pc,             \* "primary" | "secondary" | "done"
    metric,           \* the _MatchMetrics yielded (raised = TRUE: _ToleranceExceeded)
    \* ---- SpecRank: one call of rank()
    completions,      \* the candidates' new_text, in input order
    context,          \* [words_before, syms_before]
    weights,          \* the configured Weights
    f1, f2,           \* the futures of c1 (db.metric) and c2 (_metrics)
    pc,               \* rank's position
    individual,       \* tuple(_weights(metrics)): <<index of completion, Weights>>
    cum,              \* _cum(...)
    ordered,          \* _sorted(...): indices of completions, in output order
    log,              \* the write of log.json: "none" | "ok" | "failed"
    exc,              \* the exception that left rank, or "none"
    \* ---- SpecWorker: Worker._req / Worker.notify
    sessions,         \* self._sessions: token -> future
    lock,             \* self._lock: its holder, or "free"
    r_pc,             \* position of each _req call
    ret,              \* each _req call's local ret
    nvim,             \* tokens handed to COQts_req
    fut,              \* the Future created by each _req call
    n_pc,             \* position of each notify call
    n_arg             \* each notify call's (token, reply)

matchVars == <<transpose_band, cword, match, m_pc, metric>>
rankVars == <<completions, context, weights, f1, f2, pc, individual, cum, ordered, log, exc>>
workerVars == <<sessions, lock, r_pc, ret, nvim, fut, n_pc, n_arg>>
vars == <<matchVars, rankVars, workerVars>>

(***************************************************************************)
(* Bounds                                                                  *)
(***************************************************************************)
MaxCword == 3    \* longest context run tried by SpecMatch
MaxMatch == 2    \* longest candidate text tried by SpecMatch
MaxCands == 2    \* most candidates of one rank request
MaxReply == 2    \* most records db.metric returns
NReq == 2        \* concurrent _req calls
NNotify == 2     \* concurrent notify calls

Bands == {1, 2}  \* values of options.transpose_band (a positive integer)

(***************************************************************************)
(* Generic helpers                                                         *)
(***************************************************************************)
Min(S) == CHOOSE x \in S : \A y \in S : x <= y
Max(S) == CHOOSE x \in S : \A y \in S : x >= y
Abs(x) == IF x < 0 THEN -x ELSE x
At(s, i) == s[i + 1]

RECURSIVE GCD(_, _)
GCD(a, b) == IF b = 0 THEN a ELSE GCD(b, a % b)

SeqsUpTo(S, n) == UNION {[1..k -> S] : k \in 0..n}

(***************************************************************************)
(* Exact rationals standing for Python floats.  d = 0 marks the result of  *)
(* a division by zero (Python raises ZeroDivisionError there).             *)
(***************************************************************************)
Rat(n, d) ==
    IF d = 0 THEN [n |-> 0, d |-> 0]
    ELSE LET g == GCD(Abs(n), Abs(d))
             s == IF d < 0 THEN -1 ELSE 1
         IN [n |-> s * (n \div g), d |-> s * (d \div g)]
RInt(k) == [n |-> k, d |-> 1]
RZero == RInt(0)
RIsErr(x) == x.d = 0
RAdd(x, y) == IF RIsErr(x) \/ RIsErr(y) THEN Rat(0, 0)
              ELSE Rat(x.n * y.d + y.n * x.d, x.d * y.d)
RMul(x, y) == IF RIsErr(x) \/ RIsErr(y) THEN Rat(0, 0)
              ELSE Rat(x.n * y.n, x.d * y.d)
RDiv(x, y) == IF RIsErr(x) \/ RIsErr(y) THEN Rat(0, 0)
              ELSE Rat(x.n * y.d, x.d * y.n)
RLess(x, y) == x.n * y.d < y.n * x.d
RTruthy(x) == x.n # 0

(***************************************************************************)
(* Characters.  "sz" stands for U+00DF (sharp s): lower case, and          *)
(* str.casefold() expands it to "ss".  "A" is upper case and folds to "a". *)
(***************************************************************************)
Chars == {"a", "A", "s", "sz", " "}
isupper(c) == c = "A"
isspace(c) == c = " "
FoldChar(c) == CASE c = "A" -> <<"a">>
                 [] c = "sz" -> <<"s", "s">>
                 [] OTHER -> <<c>>
RECURSIVE casefold(_)
casefold(s) == IF s = <<>> THEN <<>> ELSE FoldChar(Head(s)) \o casefold(Tail(s))

\* str.find(c, lo, hi): lowest index in the slice [lo, hi) clipped to the string, or -1
find(target, c, lo, hi) ==
    LET top == IF hi < Len(target) THEN hi ELSE Len(target)
        hits == {j \in lo..(top - 1) : At(target, j) = c}
    IN IF hits = {} THEN -1 ELSE Min(hits)

inf == 2147483647

MatchMetrics(pm, nm, len, cm, raised) ==
    [raised |-> raised,
     prefix_matches |-> pm,
     match_density |-> IF len > 0 THEN Rat(nm, len) ELSE RZero,
     consecutive_matches |-> cm,
     num_matches |-> nm]
ToleranceExceeded == MatchMetrics(0, 0, 0, 0, TRUE)

(***************************************************************************)
(* _primary                                                                *)
(***************************************************************************)
PrimaryInit == [idx |-> 0, prefix_broken |-> FALSE, pm_idx |-> inf,
                prefix_matches |-> 0, consecutive_matches |-> 0, num_matches |-> 0]

\* Variants of the loop body with one line changed, against which the claims
\* about prefix_matches are tested.
\* prefix_matches is advanced before prefix_broken is updated
PrimaryStepPrefixFirst(st, i, band, cw, mt, n_mt) ==
    LET char == At(cw, i)
        target == IF isupper(char) THEN mt ELSE n_mt
        m_idx == find(target, char, st.idx, st.idx + band)
        hit == m_idx # -1
    IN [idx |-> IF hit THEN m_idx + 1 ELSE st.idx,
        prefix_broken |-> st.prefix_broken \/ m_idx # i,
        pm_idx |-> IF hit THEN m_idx ELSE st.pm_idx,
        prefix_matches |-> IF st.prefix_broken THEN st.prefix_matches
                           ELSE st.prefix_matches + 1,
        consecutive_matches |-> IF hit /\ st.pm_idx = m_idx - 1
                                THEN st.consecutive_matches + 1
                                ELSE st.consecutive_matches,
        num_matches |-> IF hit THEN st.num_matches + 1 ELSE st.num_matches]

\* prefix_broken is not latched: every hit at its own index counts
PrimaryStepNoLatch(st, i, band, cw, mt, n_mt) ==
    LET char == At(cw, i)
        target == IF isupper(char) THEN mt ELSE n_mt
        m_idx == find(target, char, st.idx, st.idx + band)
        hit == m_idx # -1
    IN [idx |-> IF hit THEN m_idx + 1 ELSE st.idx,
        prefix_broken |-> m_idx # i,
        pm_idx |-> IF hit THEN m_idx ELSE st.pm_idx,
        prefix_matches |-> IF m_idx # i THEN st.prefix_matches ELSE st.prefix_matches + 1,
        consecutive_matches |-> IF hit /\ st.pm_idx = m_idx - 1
                                THEN st.consecutive_matches + 1
                                ELSE st.consecutive_matches,
        num_matches |-> IF hit THEN st.num_matches + 1 ELSE st.num_matches]

\* the loop body for character i of cword (the else branch)
PrimaryStep(st, i, band, cw, mt, n_mt) ==
    LET char == At(cw, i)
        target == IF isupper(char) THEN mt ELSE n_mt
        m_idx == find(target, char, st.idx, st.idx + band)
        hit == m_idx # -1
        broken == st.prefix_broken \/ m_idx # i
    IN [idx |-> IF hit THEN m_idx + 1 ELSE st.idx,
        prefix_broken |-> broken,
        pm_idx |-> IF hit THEN m_idx ELSE st.pm_idx,
        prefix_matches |-> IF broken THEN st.prefix_matches ELSE st.prefix_matches + 1,
        consecutive_matches |-> IF hit /\ st.pm_idx = m_idx - 1
                                THEN st.consecutive_matches + 1
                                ELSE st.consecutive_matches,
        num_matches |-> IF hit THEN st.num_matches + 1 ELSE st.num_matches]

RECURSIVE PrimaryLoop(_, _, _, _, _, _)
PrimaryLoop(st, i, band, cw, mt, n_mt) ==
    IF i >= Len(cw)
    THEN MatchMetrics(st.prefix_matches, st.num_matches, Len(mt),
                      st.consecutive_matches, FALSE)
    ELSE IF i > band /\ st.num_matches = 0
         THEN ToleranceExceeded
         ELSE PrimaryLoop(PrimaryStep(st, i, band, cw, mt, n_mt), i + 1, band, cw, mt, n_mt)

Primary(band, cw, mt, n_mt) == PrimaryLoop(PrimaryInit, 0, band, cw, mt, n_mt)

(***************************************************************************)
(* difflib.SequenceMatcher(a, b, autojunk=True, isjunk=_isjunk), as _secondary *)
(* uses it.  The autojunk heuristic only acts on b of 200 or more elements *)
(* and never applies within the bounds.  A block is <<i, j, k>>:           *)
(* a[i:i+k] == b[j:j+k].                                                   *)
(***************************************************************************)
_isjunk(c) == isspace(c)

\* first phase of find_longest_match: the longest match free of junk, the one
\* met first by the scan (smallest i, then smallest j); <<alo, blo, 0>> if none
LongestJunkFree(a, b, alo, ahi, blo, bhi) ==
    LET runs == {r \in (alo..(ahi - 1)) \X (blo..(bhi - 1)) \X (1..(ahi - alo)) :
                    /\ r[1] + r[3] <= ahi
                    /\ r[2] + r[3] <= bhi
                    /\ \A t \in 0..(r[3] - 1) :
                          /\ At(a, r[1] + t) = At(b, r[2] + t)
                          /\ ~_isjunk(At(b, r[2] + t))}
    IN IF runs = {} THEN <<alo, blo, 0>>
       ELSE LET k == Max({r[3] : r \in runs})
                i == Min({r[1] : r \in {q \in runs : q[3] = k}})
                j == Min({r[2] : r \in {q \in runs : q[3] = k /\ q[1] = i}})
            IN <<i, j, k>>

\* the two pairs of while loops extending the best match, first by elements
\* that are not junk (junk = FALSE), then by junk (junk = TRUE)
RECURSIVE ExtendLeft(_, _, _, _, _, _)
ExtendLeft(a, b, alo, blo, m, junk) ==
    IF /\ m[1] > alo
       /\ m[2] > blo
       /\ _isjunk(At(b, m[2] - 1)) = junk
       /\ At(a, m[1] - 1) = At(b, m[2] - 1)
    THEN ExtendLeft(a, b, alo, blo, <<m[1] - 1, m[2] - 1, m[3] + 1>>, junk)
    ELSE m

RECURSIVE ExtendRight(_, _, _, _, _, _)
ExtendRight(a, b, ahi, bhi, m, junk) ==
    IF /\ m[1] + m[3] < ahi
       /\ m[2] + m[3] < bhi
       /\ _isjunk(At(b, m[2] + m[3])) = junk
       /\ At(a, m[1] + m[3]) = At(b, m[2] + m[3])
    THEN ExtendRight(a, b, ahi, bhi, <<m[1], m[2], m[3] + 1>>, junk)
    ELSE m

find_longest_match(a, b, alo, ahi, blo, bhi) ==
    LET m0 == LongestJunkFree(a, b, alo, ahi, blo, bhi)
        m1 == ExtendLeft(a, b, alo, blo, m0, FALSE)
        m2 == ExtendRight(a, b, ahi, bhi, m1, FALSE)
        m3 == ExtendLeft(a, b, alo, blo, m2, TRUE)
    IN ExtendRight(a, b, ahi, bhi, m3, TRUE)

\* the queue loop of get_matching_blocks: every block found, as a set
RECURSIVE RawBlocks(_, _, _, _, _, _)
RawBlocks(a, b, alo, ahi, blo, bhi) ==
    LET x == find_longest_match(a, b, alo, ahi, blo, bhi)
        i == x[1]
        j == x[2]
        k == x[3]
    IN IF k = 0 THEN {}
       ELSE {x}
            \cup (IF alo < i /\ blo < j THEN RawBlocks(a, b, alo, i, blo, j) ELSE {})
            \cup (IF i + k < ahi /\ j + k < bhi
                  THEN RawBlocks(a, b, i + k, ahi, j + k, bhi) ELSE {})

TupleLess(x, y) ==
    \/ x[1] < y[1]
    \/ x[1] = y[1] /\ x[2] < y[2]
    \/ x[1] = y[1] /\ x[2] = y[2] /\ x[3] < y[3]

\* matching_blocks.sort()
RECURSIVE SortBlocks(_)
SortBlocks(S) ==
    IF S = {} THEN <<>>
    ELSE LET x == CHOOSE y \in S : \A z \in S \ {y} : TupleLess(y, z)
         IN <<x>> \o SortBlocks(S \ {x})

\* the loop collapsing adjacent blocks; cur is (i1, j1, k1)
RECURSIVE Collapse(_, _)
Collapse(blocks, cur) ==
    IF blocks = <<>>
    THEN IF cur[3] # 0 THEN <<cur>> ELSE <<>>
    ELSE LET x == Head(blocks)
         IN IF cur[1] + cur[3] = x[1] /\ cur[2] + cur[3] = x[2]
            THEN Collapse(Tail(blocks), <<cur[1], cur[2], cur[3] + x[3]>>)
            ELSE (IF cur[3] # 0 THEN <<cur>> ELSE <<>>) \o Collapse(Tail(blocks), x)

get_matching_blocks(a, b) ==
    Collapse(SortBlocks(RawBlocks(a, b, 0, Len(a), 0, Len(b))), <<0, 0, 0>>)
        \o << <<Len(a), Len(b), 0>> >>

(***************************************************************************)
(* _secondary                                                              *)
(***************************************************************************)
RECURSIVE SumSizes(_)
SumSizes(blocks) == IF blocks = <<>> THEN 0 ELSE Head(blocks)[3] + SumSizes(Tail(blocks))

\* prefix_matches after the loop: the size of the last block with ai == bi == 0
RECURSIVE PrefixOf(_, _)
PrefixOf(blocks, acc) ==
    IF blocks = <<>> THEN acc
    ELSE PrefixOf(Tail(blocks),
                  IF Head(blocks)[1] = 0 /\ Head(blocks)[2] = 0 THEN Head(blocks)[3] ELSE acc)

\* matches: the positions range(bi, bi + size) of every block, in order
RECURSIVE MatchPositions(_)
MatchPositions(blocks) ==
    IF blocks = <<>> THEN <<>>
    ELSE [t \in 1..Head(blocks)[3] |-> Head(blocks)[2] + t - 1] \o MatchPositions(Tail(blocks))

\* the second loop: counts the positions that follow the one before them
RECURSIVE Consecutive(_, _)
Consecutive(matches, pm_idx) ==
    IF matches = <<>> THEN 0
    ELSE (IF pm_idx = Head(matches) - 1 THEN 1 ELSE 0) + Consecutive(Tail(matches), Head(matches))

Secondary(n_cword, n_match) ==
    LET blocks == get_matching_blocks(n_cword, n_match)
    IN MatchMetrics(PrefixOf(blocks, 0), SumSizes(blocks), Len(n_match),
                    Consecutive(MatchPositions(blocks), inf), FALSE)


(***************************************************************************)
(* _metrics: the context run is chosen by is_word(match[:1]); _primary is  *)
(* tried first and _secondary runs on _ToleranceExceeded.                  *)
(***************************************************************************)
\* shared.parse.is_word on match[:1]: a word character is alphanumeric ("" is not)
is_word(mt) == mt # <<>> /\ ~isspace(Head(mt))

MetricsOne(band, ctx, mt) ==
    LET cw == IF is_word(mt) THEN ctx.words_before ELSE ctx.syms_before
        p == Primary(band, cw, mt, casefold(mt))
    IN IF p.raised THEN Secondary(casefold(cw), casefold(mt)) ELSE p

Metrics(band, ctx, cmps) == [i \in 1..Len(cmps) |-> MetricsOne(band, ctx, cmps[i])]

(***************************************************************************)
(* Weights, _weights, _cum, _sorted                                        *)
(***************************************************************************)
\* the fields of Weights, in the order asdict yields them
DimNames == <<"alphabetical", "consecutive_matches", "count_by_filetype",
              "insertion_order", "match_density", "nearest_neighbour",
              "num_matches", "prefix_matches">>
Dims == {DimNames[i] : i \in 1..Len(DimNames)}

ZERO == [k \in Dims |-> RZero]

\* the Weights built for one (cmp, sql, match) of the zip
WeightOf(sql, m) ==
    [alphabetical |-> RZero,
     consecutive_matches |-> RInt(m.consecutive_matches),
     count_by_filetype |-> RInt(sql.ft_count),
     insertion_order |-> RInt(sql.insertion_order),
     match_density |-> m.match_density,
     nearest_neighbour |-> RInt(sql.line_diff),
     num_matches |-> RInt(m.num_matches),
     prefix_matches |-> RInt(m.prefix_matches)]

\* zip(completions, f1.result(), f2.result()) stops at the shortest of the three
ZipLen(cmps, r1, r2) == Min({Len(cmps), Len(r1), Len(r2)})

\* tuple(_weights(metrics)): <<index of the completion, its Weights>>
Individual(cmps, r1, r2) ==
    [i \in 1..ZipLen(cmps, r1, r2) |-> <<i, WeightOf(r1[i], r2[i])>>]

RECURSIVE SumDim(_, _)
SumDim(ws, k) == IF ws = <<>> THEN RZero ELSE RAdd(Head(ws)[2][k], SumDim(Tail(ws), k))

Cum(adjustment, ws) == [k \in Dims |-> RMul(SumDim(ws, k), adjustment[k])]

\* Variant of the term without the guard on the cumulative value
KeyTermUnguarded(val, adj) == RDiv(val, adj)

\* one term of key_by's sum
KeyTerm(val, adj) == IF RTruthy(adj) THEN RDiv(val, adj) ELSE RZero

RECURSIVE KeySum(_, _, _)
KeySum(adjustment, weight, i) ==
    IF i > Len(DimNames) THEN RZero
    ELSE RAdd(KeyTerm(weight[DimNames[i]], adjustment[DimNames[i]]),
              KeySum(adjustment, weight, i + 1))

key_by(adjustment, single) == KeySum(adjustment, single[2], 1)

\* sorted(it, key=key_by, reverse=True): descending, stable
RECURSIVE InsertDesc(_, _, _)
InsertDesc(adjustment, sorted, x) ==
    IF sorted = <<>> THEN <<x>>
    ELSE IF RLess(key_by(adjustment, Head(sorted)), key_by(adjustment, x))
         THEN <<x>> \o sorted
         ELSE <<Head(sorted)>> \o InsertDesc(adjustment, Tail(sorted), x)

RECURSIVE SortDesc(_, _, _)
SortDesc(adjustment, it, acc) ==
    IF it = <<>> THEN acc
    ELSE SortDesc(adjustment, Tail(it), InsertDesc(adjustment, acc, Head(it)))

\* Variants of the sort: ascending (reverse=True dropped), and descending with
\* ties reversed (an ascending sort reversed afterwards)
RECURSIVE InsertAsc(_, _, _)
InsertAsc(adjustment, sorted, x) ==
    IF sorted = <<>> THEN <<x>>
    ELSE IF RLess(key_by(adjustment, x), key_by(adjustment, Head(sorted)))
         THEN <<x>> \o sorted
         ELSE <<Head(sorted)>> \o InsertAsc(adjustment, Tail(sorted), x)

RECURSIVE SortAsc(_, _, _)
SortAsc(adjustment, it, acc) ==
    IF it = <<>> THEN acc
    ELSE SortAsc(adjustment, Tail(it), InsertAsc(adjustment, acc, Head(it)))

SortedAscending(adjustment, it) == SortAsc(adjustment, it, <<>>)

SortedTiesReversed(adjustment, it) ==
    LET asc == SortAsc(adjustment, it, <<>>)
    IN [i \in 1..Len(asc) |-> asc[Len(asc) + 1 - i]]

Sorted(adjustment, it) == SortDesc(adjustment, it, <<>>)

\* key_by raises ZeroDivisionError for some element
KeyRaises(adjustment, it) == \E i \in 1..Len(it) : RIsErr(key_by(adjustment, it[i]))


(***************************************************************************)
(* Values the variables of the other specifications rest at                *)
(***************************************************************************)
NoMetric == MatchMetrics(0, 0, 0, 0, FALSE)
NoFuture == [state |-> "new", result |-> <<>>]

MatchIdle ==
    /\ cword = <<>>
    /\ match = <<>>
    /\ m_pc = "idle"
    /\ metric = NoMetric

RankIdle ==
    /\ completions = <<>>
    /\ context = [words_before |-> <<>>, syms_before |-> <<>>]
    /\ weights = ZERO
    /\ f1 = NoFuture
    /\ f2 = NoFuture
    /\ pc = "idle"
    /\ individual = <<>>
    /\ cum = ZERO
    /\ ordered = <<>>
    /\ log = "none"
    /\ exc = "none"

Reqs == 1..NReq
Notifiers == 1..NNotify
NoToken == 0                    \* a token no _req call created
Tokens == Reqs \cup {NoToken}
Replies == {"x", "y"}

WorkerIdle ==
    /\ sessions = {}
    /\ lock = "free"
    /\ r_pc = [r \in Reqs |-> "idle"]
    /\ ret = [r \in Reqs |-> "unset"]
    /\ nvim = {}
    /\ fut = [r \in Reqs |-> [done |-> FALSE, result |-> "unset"]]
    /\ n_pc = [n \in Notifiers |-> "idle"]
    /\ n_arg = [n \in Notifiers |-> [token |-> NoToken, reply |-> "x"]]

(***************************************************************************)
(* SpecMatch: the body of _metrics' loop for one candidate                 *)
(***************************************************************************)
InitMatch ==
    /\ transpose_band \in Bands
    /\ cword \in SeqsUpTo(Chars, MaxCword)
    /\ match \in SeqsUpTo(Chars, MaxMatch)
    /\ m_pc = "primary"
    /\ metric = NoMetric
    /\ RankIdle
    /\ WorkerIdle

\* try: yield _primary(...)
RunPrimary ==
    /\ m_pc = "primary"
    /\ metric' = Primary(transpose_band, cword, match, casefold(match))
    /\ m_pc' = IF metric'.raised THEN "secondary" ELSE "done_primary"
    /\ UNCHANGED <<transpose_band, cword, match, rankVars, workerVars>>

\* except _ToleranceExceeded: yield _secondary(...)
RunSecondary ==
    /\ m_pc = "secondary"
    /\ metric' = Secondary(casefold(cword), casefold(match))
    /\ m_pc' = "done_secondary"
    /\ UNCHANGED <<transpose_band, cword, match, rankVars, workerVars>>

NextMatch == RunPrimary \/ RunSecondary

SpecMatch == InitMatch /\ [][NextMatch]_vars

(***************************************************************************)
(* SpecRank: one call of rank()                                            *)
(***************************************************************************)
\* candidate texts, contexts, usage records and configured weights tried
Texts == {<<"s", "a">>, <<"a", "s">>, <<>>}
Contexts == {[words_before |-> <<"s", "a">>, syms_before |-> <<>>],
             [words_before |-> <<"s", "s", "a">>, syms_before |-> <<" ">>]}
SqlPool == {[ft_count |-> 0, insertion_order |-> 0, line_diff |-> 0],
            [ft_count |-> 2, insertion_order |-> 1, line_diff |-> 0],
            [ft_count |-> 1, insertion_order |-> 3, line_diff |-> 2]}
MatchDims == {"consecutive_matches", "match_density", "num_matches", "prefix_matches"}
WeightChoices ==
    {[k \in Dims |-> RInt(0)],
     [k \in Dims |-> RInt(1)],
     [k \in Dims |-> IF k \in MatchDims THEN RInt(2) ELSE RInt(0)],
     [k \in Dims |-> IF k \in MatchDims THEN RInt(1) ELSE RInt(3)]}

InitRank ==
    /\ transpose_band \in Bands
    /\ completions \in SeqsUpTo(Texts, MaxCands)
    /\ context \in Contexts
    /\ weights \in WeightChoices
    /\ f1 = NoFuture
    /\ f2 = NoFuture
    /\ pc = "submit1"
    /\ individual = <<>>
    /\ cum = ZERO
    /\ ordered = <<>>
    /\ log = "none"
    /\ exc = "none"
    /\ MatchIdle
    /\ WorkerIdle

rankInputs == <<transpose_band, completions, context, weights>>

\* f1 = pool.submit(c1)
Submit1 ==
    /\ pc = "submit1"
    /\ f1' = [state |-> "pending", result |-> <<>>]
    /\ pc' = "submit2"
    /\ UNCHANGED <<rankInputs, f2, individual, cum, ordered, log, exc, matchVars, workerVars>>

\* f2 = pool.submit(c2)
Submit2 ==
    /\ pc = "submit2"
    /\ f2' = [state |-> "pending", result |-> <<>>]
    /\ pc' = "wait"
    /\ UNCHANGED <<rankInputs, f1, individual, cum, ordered, log, exc, matchVars, workerVars>>

\* c1 returns what db.metric returned
C1Return ==
    /\ f1.state = "pending"
    /\ \E reply \in SeqsUpTo(SqlPool, MaxReply) :
          f1' = [state |-> "finished", result |-> reply]
    /\ UNCHANGED <<rankInputs, f2, pc, individual, cum, ordered, log, exc, matchVars, workerVars>>

\* db.metric raises
C1Raise ==
    /\ f1.state = "pending"
    /\ f1' = [state |-> "failed", result |-> <<>>]
    /\ UNCHANGED <<rankInputs, f2, pc, individual, cum, ordered, log, exc, matchVars, workerVars>>

\* c2 returns tuple(_metrics(...))
C2Return ==
    /\ f2.state = "pending"
    /\ f2' = [state |-> "finished", result |-> Metrics(transpose_band, context, completions)]
    /\ UNCHANGED <<rankInputs, f1, pc, individual, cum, ordered, log, exc, matchVars, workerVars>>

\* _metrics raises
C2Raise ==
    /\ f2.state = "pending"
    /\ f2' = [state |-> "failed", result |-> <<>>]
    /\ UNCHANGED <<rankInputs, f1, pc, individual, cum, ordered, log, exc, matchVars, workerVars>>

\* wait((f1, f2), return_when=FIRST_EXCEPTION) returns: a future finished by
\* raising, or both are done
WaitReturns ==
    /\ pc = "wait"
    /\ \/ f1.state = "failed"
       \/ f2.state = "failed"
       \/ f1.state = "finished" /\ f2.state = "finished"
    /\ pc' = "f1_result"
    /\ UNCHANGED <<rankInputs, f1, f2, individual, cum, ordered, log, exc, matchVars, workerVars>>

\* f1.result(): blocks while f1 is pending, re-raises c1's exception
F1Result ==
    /\ pc = "f1_result"
    /\ f1.state # "pending"
    /\ pc' = IF f1.state = "failed" THEN "raised" ELSE "f2_result"
    /\ exc' = IF f1.state = "failed" THEN "c1" ELSE exc
    /\ UNCHANGED <<rankInputs, f1, f2, individual, cum, ordered, log, matchVars, workerVars>>

\* f2.result(): blocks while f2 is pending, re-raises c2's exception
F2Result ==
    /\ pc = "f2_result"
    /\ f2.state # "pending"
    /\ pc' = IF f2.state = "failed" THEN "raised" ELSE "compute"
    /\ exc' = IF f2.state = "failed" THEN "c2" ELSE exc
    /\ UNCHANGED <<rankInputs, f1, f2, individual, cum, ordered, log, matchVars, workerVars>>

\* metrics = zip(...); individual = ...; cum = ...; ordered = _sorted(...)
Compute ==
    /\ pc = "compute"
    /\ individual' = Individual(completions, f1.result, f2.result)
    /\ cum' = Cum(weights, individual')
    /\ IF KeyRaises(cum', individual')
       THEN /\ ordered' = <<>>
            /\ pc' = "raised"
            /\ exc' = "ZeroDivisionError"
       ELSE /\ ordered' = Sorted(cum', individual')
            /\ pc' = "log"
            /\ exc' = exc
    /\ UNCHANGED <<rankInputs, f1, f2, log, matchVars, workerVars>>

\* with open(TMP_DIR / "log.json", "w") as fd: dump(thing, fd), then the return
LogWritten ==
    /\ pc = "log"
    /\ log' = "ok"
    /\ pc' = "returned"
    /\ UNCHANGED <<rankInputs, f1, f2, individual, cum, ordered, exc, matchVars, workerVars>>

\* open() or dump() raises OSError
LogFails ==
    /\ pc = "log"
    /\ log' = "failed"
    /\ pc' = "raised"
    /\ exc' = "OSError"
    /\ UNCHANGED <<rankInputs, f1, f2, individual, cum, ordered, matchVars, workerVars>>

NextRank ==
    \/ Submit1
    \/ Submit2
    \/ C1Return
    \/ C1Raise
    \/ C2Return
    \/ C2Raise
    \/ WaitReturns
    \/ F1Result
    \/ F2Result
    \/ Compute
    \/ LogWritten
    \/ LogFails

SpecRank == InitRank /\ [][NextRank]_vars

\* what rank returned: the indices of the completions, in output order
Output == [i \in 1..Len(ordered) |-> ordered[i][1]]


(***************************************************************************)
(* SpecWorker: Worker._req and Worker.notify of the tree-sitter client.    *)
(* The token of _req call r is r itself (uuid4 never repeats).             *)
(***************************************************************************)
InitWorker ==
    /\ WorkerIdle
    /\ transpose_band = 1
    /\ MatchIdle
    /\ RankIdle

\* token = uuid4(); fut = Future(); with self._lock: (the lock is taken)
ReqLock1(r) ==
    /\ r_pc[r] = "idle"
    /\ lock = "free"
    /\ lock' = <<"req", r>>
    /\ r_pc' = [r_pc EXCEPT ![r] = "register"]
    /\ UNCHANGED <<sessions, ret, nvim, fut, n_pc, n_arg, matchVars, rankVars>>

\* self._sessions[token] = fut, and the lock is released
ReqRegister(r) ==
    /\ r_pc[r] = "register"
    /\ sessions' = sessions \cup {r}
    /\ lock' = "free"
    /\ r_pc' = [r_pc EXCEPT ![r] = "call"]
    /\ UNCHANGED <<ret, nvim, fut, n_pc, n_arg, matchVars, rankVars>>

\* threadsafe_call(nvim, cont): COQts_req(token, session, pos) runs in nvim
\* (the call returning normally; an exception raised by it leaves _req before
\* the pop and is outside the exits considered here)
ReqCall(r) ==
    /\ r_pc[r] = "call"
    /\ nvim' = nvim \cup {r}
    /\ r_pc' = [r_pc EXCEPT ![r] = "wait"]
    /\ UNCHANGED <<sessions, lock, ret, fut, n_pc, n_arg, matchVars, rankVars>>

\* ret = fut.result(timeout=...): the future is done
ReqResult(r) ==
    /\ r_pc[r] = "wait"
    /\ fut[r].done
    /\ ret' = [ret EXCEPT ![r] = fut[r].result]
    /\ r_pc' = [r_pc EXCEPT ![r] = "pop"]
    /\ UNCHANGED <<sessions, lock, nvim, fut, n_pc, n_arg, matchVars, rankVars>>

\* except TimeoutError: ret = None
ReqTimeout(r) ==
    /\ r_pc[r] = "wait"
    /\ ~fut[r].done
    /\ ret' = [ret EXCEPT ![r] = "None"]
    /\ r_pc' = [r_pc EXCEPT ![r] = "pop"]
    /\ UNCHANGED <<sessions, lock, nvim, fut, n_pc, n_arg, matchVars, rankVars>>

\* the second with self._lock: (the lock is taken)
ReqLock2(r) ==
    /\ r_pc[r] = "pop"
    /\ lock = "free"
    /\ lock' = <<"req", r>>
    /\ r_pc' = [r_pc EXCEPT ![r] = "popping"]
    /\ UNCHANGED <<sessions, ret, nvim, fut, n_pc, n_arg, matchVars, rankVars>>

\* Variant of the last step of _req that leaves the token in _sessions
ReqPopLeak(r) ==
    /\ r_pc[r] = "popping"
    /\ lock' = "free"
    /\ r_pc' = [r_pc EXCEPT ![r] = "returned"]
    /\ UNCHANGED <<sessions, ret, nvim, fut, n_pc, n_arg, matchVars, rankVars>>

\* if token in self._sessions: self._sessions.pop(token); the lock is released; return ret
ReqPop(r) ==
    /\ r_pc[r] = "popping"
    /\ sessions' = IF r \in sessions THEN sessions \ {r} ELSE sessions
    /\ lock' = "free"
    /\ r_pc' = [r_pc EXCEPT ![r] = "returned"]
    /\ UNCHANGED <<ret, nvim, fut, n_pc, n_arg, matchVars, rankVars>>

\* notify(token, msg) is called and takes the lock
NotifyLock(n) ==
    /\ n_pc[n] = "idle"
    /\ lock = "free"
    /\ \E token \in Tokens, reply \in Replies :
          n_arg' = [n_arg EXCEPT ![n] = [token |-> token, reply |-> reply]]
    /\ lock' = <<"notify", n>>
    /\ n_pc' = [n_pc EXCEPT ![n] = "body"]
    /\ UNCHANGED <<sessions, r_pc, ret, nvim, fut, matchVars, rankVars>>

\* Future.set_result: InvalidStateError (suppressed) when the future is done
set_result(f, reply) == IF f.done THEN f ELSE [done |-> TRUE, result |-> reply]

\* if token in self._sessions: ....set_result(reply); the lock is released
NotifyBody(n) ==
    /\ n_pc[n] = "body"
    /\ fut' = IF n_arg[n].token \in sessions
              THEN [fut EXCEPT ![n_arg[n].token] = set_result(@, n_arg[n].reply)]
              ELSE fut
    /\ lock' = "free"
    /\ n_pc' = [n_pc EXCEPT ![n] = "idle"]
    /\ n_arg' = [n_arg EXCEPT ![n] = [token |-> NoToken, reply |-> "x"]]
    /\ UNCHANGED <<sessions, r_pc, ret, nvim, matchVars, rankVars>>

NextWorker ==
    \/ \E r \in Reqs : ReqLock1(r)
    \/ \E r \in Reqs : ReqRegister(r)
    \/ \E r \in Reqs : ReqCall(r)
    \/ \E r \in Reqs : ReqResult(r)
    \/ \E r \in Reqs : ReqTimeout(r)
    \/ \E r \in Reqs : ReqLock2(r)
    \/ \E r \in Reqs : ReqPop(r)
    \/ \E n \in Notifiers : NotifyLock(n)
    \/ \E n \in Notifiers : NotifyBody(n)

SpecWorker == InitWorker /\ [][NextWorker]_vars


(***************************************************************************)
(* Properties                                                              *)
(***************************************************************************)
\* The score the ranking is specified by, computed from the per-candidate
\* weight vectors and the configured weights: the cumulative value of dimension
\* k is (sum of k over all candidates) x (configured weight of k); a candidate
\* scores the sum of value / cumulative value, a term being 0 when the
\* cumulative value is 0.
RECURSIVE DimTotal(_, _)
DimTotal(k, n) == IF n = 0 THEN RZero ELSE RAdd(individual[n][2][k], DimTotal(k, n - 1))

CumulativeOf(k) == RMul(DimTotal(k, Len(individual)), weights[k])

RECURSIVE ScoreUpTo(_, _)
ScoreUpTo(c, d) ==
    IF d = 0 THEN RZero
    ELSE RAdd(IF CumulativeOf(DimNames[d]) = RZero THEN RZero
              ELSE RDiv(individual[c][2][DimNames[d]], CumulativeOf(DimNames[d])),
              ScoreUpTo(c, d - 1))

Score(c) == ScoreUpTo(c, Len(DimNames))

\* C1: when both computations succeed, rank returns the candidates in
\* descending order of score: no candidate appears after a candidate with a
\* strictly lower score.
C1_DescendingByScore ==
    pc = "returned" =>
        \A i, j \in 1..Len(Output) :
            i < j => ~RLess(Score(Output[i]), Score(Output[j]))

\* a returned ranking that moved a later candidate in front of an earlier one
C1_Witness ==
    /\ pc = "returned"
    /\ Len(Output) >= 2
    /\ Output[1] > Output[2]
    /\ RLess(Score(Output[2]), Score(Output[1]))

\* C2: candidates with equal scores keep their input order in rank's output;
\* with all configured weights 0 the output order is the input order.
C2_Stable ==
    pc = "returned" =>
        /\ \A i, j \in 1..Len(Output) :
              (i < j /\ Score(Output[i]) = Score(Output[j])) => Output[i] < Output[j]
        /\ (\A k \in Dims : weights[k] = RZero) =>
              Output = [i \in 1..Len(individual) |-> i]

\* a returned ranking with a tie between two candidates under non-zero weights,
\* placed behind a candidate that came later in the input
C2_Witness ==
    /\ pc = "returned"
    /\ \E k \in Dims : weights[k] # RZero
    /\ \E i, j \in 1..Len(Output) :
          /\ i < j
          /\ Score(Output[i]) = Score(Output[j])
          /\ Score(Output[i]) # RZero

\* C3: if c1 or c2 has failed, rank is not blocked waiting for the other one.
RankBlocked ==
    \/ pc = "wait" /\ ~(\/ f1.state = "failed"
                        \/ f2.state = "failed"
                        \/ f1.state = "finished" /\ f2.state = "finished")
    \/ pc = "f1_result" /\ f1.state = "pending"
    \/ pc = "f2_result" /\ f2.state = "pending"

C3_FailFast ==
    (f1.state = "failed" \/ f2.state = "failed") => ~RankBlocked

\* C4: a rank request that returns, returns every supplied candidate exactly
\* once, whatever number of usage records the store returned.
C4_NoPartialResult ==
    pc = "returned" =>
        /\ Len(Output) = Len(completions)
        /\ {Output[i] : i \in 1..Len(Output)} = 1..Len(completions)

\* C5: the match_density of the metrics produced for a candidate is within
\* [0, 1] when the candidate text is non-empty, and 0 when it is empty.
C5_DensityInUnitInterval ==
    m_pc \in {"done_primary", "done_secondary"} =>
        IF match = <<>>
        THEN metric.match_density = RZero
        ELSE /\ ~RLess(metric.match_density, RZero)
             /\ ~RLess(RInt(1), metric.match_density)

\* C6: the metrics produced for a candidate, by _primary or by _secondary, have
\* prefix_matches <= num_matches and consecutive_matches <= num_matches.
C6_PrefixAndConsecutiveBounded ==
    m_pc \in {"done_primary", "done_secondary"} =>
        /\ metric.prefix_matches <= metric.num_matches
        /\ metric.consecutive_matches <= metric.num_matches

\* the fallback produced a prefix of two consecutive matches
C6_Witness ==
    /\ m_pc = "done_secondary"
    /\ metric.prefix_matches = 2
    /\ metric.consecutive_matches = 1
    /\ metric.num_matches = 2

\* C7: a dimension in which every candidate has 0, or whose configured weight
\* is 0, has cumulative value 0 and contributes exactly 0 to every score, and
\* the scoring does not divide by zero.
rankComputed == pc \in {"log", "returned"} \/ exc \in {"ZeroDivisionError", "OSError"}

C7_ZeroCumulativeSafe ==
    rankComputed =>
        /\ exc # "ZeroDivisionError"
        /\ \A k \in Dims :
              (\/ weights[k] = RZero
               \/ \A i \in 1..Len(individual) : individual[i][2][k] = RZero)
              => /\ cum[k] = RZero
                 /\ \A i \in 1..Len(individual) :
                       KeyTerm(individual[i][2][k], cum[k]) = RZero

\* a scored request with a weighted dimension in which every candidate has 0,
\* and an unweighted dimension in which some candidate has not
C7_Witness ==
    /\ pc = "returned"
    /\ Len(individual) >= 2
    /\ \E k \in Dims :
          /\ weights[k] # RZero
          /\ \A i \in 1..Len(individual) : individual[i][2][k] = RZero
    /\ \E k \in Dims :
          /\ weights[k] = RZero
          /\ \E i \in 1..Len(individual) : individual[i][2][k] # RZero

\* C8: a failure of the write to the diagnostic log does not make the ranking
\* request fail.
C8_LogDoesNotFailRank ==
    log = "failed" => pc # "raised"

\* C9: when _primary returns, prefix_matches is the largest k such that every
\* cword[i], i < k, stands at position i of its target string (the candidate
\* text for an upper-case character, the case-folded text otherwise).
TargetOf(i) == IF isupper(At(cword, i)) THEN match ELSE casefold(match)

LeadingAtOwnIndex ==
    Max({k \in 0..Len(cword) :
            \A i \in 0..(k - 1) :
                i < Len(TargetOf(i)) /\ At(TargetOf(i), i) = At(cword, i)})

C9_PrefixTracking ==
    m_pc = "done_primary" => metric.prefix_matches = LeadingAtOwnIndex

\* the first character is not found, the second is found at its own index, and
\* prefix_matches stays 0
C9_Witness ==
    /\ m_pc = "done_primary"
    /\ transpose_band = 2
    /\ cword = <<"A", "a">>
    /\ match = <<"s", "a">>
    /\ metric.num_matches = 1
    /\ metric.prefix_matches = 0

\* C10: the token of a _req call that has returned is not in _sessions, which
\* holds only tokens of calls in progress; a notify whose token is absent from
\* _sessions or whose future is already done changes no future, and no notify
\* changes another request's future or any request's returned value.
ReqInProgress(r) == r_pc[r] \in {"call", "wait", "pop", "popping"}

SessionsInProgress ==
    /\ \A r \in Reqs : r_pc[r] = "returned" => r \notin sessions
    /\ \A t \in sessions : t \in Reqs /\ ReqInProgress(t)

NotifyIsolated ==
    \A n \in Notifiers :
        (n_pc[n] = "body" /\ n_pc'[n] = "idle") =>
            /\ ret' = ret
            /\ \A r \in Reqs : r # n_arg[n].token => fut'[r] = fut[r]
            /\ (n_arg[n].token \notin sessions \/ fut[n_arg[n].token].done) => fut' = fut

====
